---- MODULE Spec2Model ----
(***************************************************************************)
(* The ingestion-and-merge pipeline of the iPhone price monitor:           *)
(* scraper/pipeline/run.py, run_pipeline.  One run fetches the catalog,    *)
(* loads the JSON history, concatenates, deduplicates, writes the JSON     *)
(* history, writes the CSV export and returns the merged collection.      *)
(*                                                                         *)
(* The two output files are the shared state.  A run is a process whose    *)
(* program counter walks the statements of run_pipeline; every statement   *)
(* that can raise has a failing twin that ends the run with the error.     *)
(***************************************************************************)
EXTENDS Integers, Sequences, FiniteSets, TLC

\* ------------------------------------------------------------- bounds
\* Longest sequence one fetch returns (serial runs).
MaxFetch == 2
\* Longest history file the serial runs start from.
MaxInit == 2
\* Longest sequence one fetch returns when two runs overlap.
MaxConcFetch == 1
\* Longest history file two overlapping runs start from.
MaxConcInit == 0

Keys == {"a", "b"}
Prices == {1, 2}
Times == {1, 2}
Procs == {"r1", "r2"}

\* ------------------------------------------------------------- data
\* ProductSnapshot: the fields the pipeline's behaviour depends on.  The catalog
\* lists product "a" at either price and product "b" at one price, so that two
\* snapshots with the same (product_key, scraped_at) can differ.
ProductSnapshot ==
    {s \in [product_key : Keys, price : Prices, scraped_at : Times] :
        s.product_key = "b" => s.price = 1}

\* A timestamp as the ISO-8601 text held in the files.
isoformat(t) == <<"iso", t>>

\* The datetime an ISO-8601 text denotes.
fromisoformat(x) == x[2]

\* s.model_dump(mode="json"): the JSON object of a snapshot.
model_dump(s) ==
    [product_key |-> s.product_key, price |-> s.price,
     scraped_at |-> isoformat(s.scraped_at)]

\* A JSON object that model_validate accepts: product_key present and non-empty.
IsValidDict(d) == d.product_key # ""

\* A JSON object without a product_key: model_validate raises on it.
BadDict == [product_key |-> "", price |-> CHOOSE x \in Prices : TRUE,
            scraped_at |-> isoformat(CHOOSE t \in Times : TRUE)]

\* The JSON objects a history file may hold.
Dicts == {model_dump(s) : s \in ProductSnapshot} \cup {BadDict}

LossyDictToSnapshot(d) ==
    [product_key |-> d.product_key, price |-> CHOOSE x \in Prices : TRUE,
     scraped_at |-> fromisoformat(d.scraped_at)]

\* _dict_to_snapshot: ProductSnapshot.model_validate(d), for a valid d.
DictToSnapshot(d) ==
    [product_key |-> d.product_key, price |-> d.price,
     scraped_at |-> fromisoformat(d.scraped_at)]

\* One CSV data row: the flat projection of a snapshot.
csv_row(s) == <<s.product_key, s.price, isoformat(s.scraped_at)>>

\* The dedup key of a snapshot.
PairOf(s) == <<s.product_key, s.scraped_at>>

RECURSIVE DedupeAcc(_, _, _)
DedupeAcc(rows, seen, out) ==
    IF rows = <<>> THEN out
    ELSE LET s == Head(rows) IN
         IF PairOf(s) \in seen
         THEN DedupeAcc(Tail(rows), seen, out)
         ELSE DedupeAcc(Tail(rows), seen \cup {PairOf(s)}, Append(out, s))

\* dedupe_snapshots: the first occurrence of each (product_key, scraped_at).
dedupe_snapshots(rows) == DedupeAcc(rows, {}, <<>>)

\* All sequences over S of length at most n.
BoundedSeq(S, n) == UNION {[1..k -> S] : k \in 0..n}

\* [_dict_to_snapshot(d) for d in existing_dicts]
ToSnapshots(dicts) == [i \in 1..Len(dicts) |-> DictToSnapshot(dicts[i])]

\* The JSON array write_json stores: one object per snapshot, in order.
ToDicts(rows) == [i \in 1..Len(rows) |-> model_dump(rows[i])]

\* The CSV data rows write_csv stores: one row per snapshot, in order.
ToCsvRows(rows) == [i \in 1..Len(rows) |-> csv_row(rows[i])]

\* What one fetch can return: at most n snapshots, all stamped with one "now".
FetchResults(n) ==
    UNION {BoundedSeq({s \in ProductSnapshot : s.scraped_at = t}, n) : t \in Times}

SerialFetches == FetchResults(MaxFetch)
ConcFetches == FetchResults(MaxConcFetch)

\* ------------------------------------------------------------- files
AbsentFile == [exists |-> FALSE, parses |-> TRUE, rows |-> <<>>]
CorruptFile == [exists |-> TRUE, parses |-> FALSE, rows |-> <<>>]
FileOf(rows) == [exists |-> TRUE, parses |-> TRUE, rows |-> rows]

\* read_json_if_exists succeeds: no file, or a file that parses.
CanRead(f) == ~f.exists \/ f.parses

\* read_json_if_exists: [] when there is no file, else the parsed objects.
read_json_if_exists(f) == IF f.exists THEN f.rows ELSE <<>>

\* The whole load (read, then validate every object) succeeds.
Loadable(f) ==
    /\ CanRead(f)
    /\ \A i \in 1..Len(read_json_if_exists(f)) : IsValidDict(read_json_if_exists(f)[i])

VARIABLES
    json_file,      \* the JSON history at out_json
    csv_file,       \* the CSV export at out_csv
    pc,             \* pc[p]: the statement run p is at
    new_rows,       \* new_rows[p]
    existing_rows,  \* existing_rows[p]
    combined,       \* combined[p]
    ret,            \* ret[p]: what run p returned
    err,            \* err[p]: the error run p raised, or "none"
    log,            \* log[p]: the steps run p has completed, in order
    pre,            \* pre[p]: both files, and json_written, as run p began
    json_written,   \* some run has written the JSON history
    interleaved     \* a run loaded the history between another's load and write

vars == <<json_file, csv_file, pc, new_rows, existing_rows, combined, ret, err,
          log, pre, json_written, interleaved>>

files == <<json_file, csv_file, json_written>>
locals == <<new_rows, existing_rows, combined, ret>>

\* The steps of a successful run, in the order run_pipeline performs them.
FullLog == <<"fetch", "load", "concat", "dedupe", "write_json", "write_csv", "return">>

InitRun ==
    /\ csv_file = AbsentFile
    /\ pc = [p \in Procs |-> "idle"]
    /\ new_rows = [p \in Procs |-> <<>>]
    /\ existing_rows = [p \in Procs |-> <<>>]
    /\ combined = [p \in Procs |-> <<>>]
    /\ ret = [p \in Procs |-> <<>>]
    /\ err = [p \in Procs |-> "none"]
    /\ log = [p \in Procs |-> <<>>]
    /\ pre = [p \in Procs |-> [json |-> AbsentFile, csv |-> AbsentFile, written |-> FALSE]]
    /\ json_written = FALSE
    /\ interleaved = FALSE

\* Any history file: none, an unparseable one, or any list of objects.
Init ==
    /\ json_file \in {AbsentFile, CorruptFile} \cup {FileOf(r) : r \in BoundedSeq(Dicts, MaxInit)}
    /\ InitRun

\* Two overlapping runs start from a history that loads.
InitConc ==
    /\ json_file \in {AbsentFile} \cup
         {FileOf(ToDicts(r)) : r \in BoundedSeq(ProductSnapshot, MaxConcInit)}
    /\ InitRun

\* ------------------------------------------------------------- run_pipeline
Raise(p, e) ==
    /\ pc' = [pc EXCEPT ![p] = "failed"]
    /\ err' = [err EXCEPT ![p] = e]

Step(p, name, next) ==
    /\ pc' = [pc EXCEPT ![p] = next]
    /\ log' = [log EXCEPT ![p] = Append(@, name)]
    /\ UNCHANGED err

\* run_pipeline is called.
Enter(p) ==
    /\ pc' = [pc EXCEPT ![p] = "fetch"]
    /\ new_rows' = [new_rows EXCEPT ![p] = <<>>]
    /\ existing_rows' = [existing_rows EXCEPT ![p] = <<>>]
    /\ combined' = [combined EXCEPT ![p] = <<>>]
    /\ ret' = [ret EXCEPT ![p] = <<>>]
    /\ err' = [err EXCEPT ![p] = "none"]
    /\ log' = [log EXCEPT ![p] = <<>>]
    /\ pre' = [pre EXCEPT ![p] = [json |-> json_file, csv |-> csv_file,
                                  written |-> json_written]]
    /\ UNCHANGED <<files, interleaved>>

\* The first call of run p.
Start(p) ==
    /\ pc[p] = "idle"
    /\ Enter(p)

\* A later call, after the previous one returned or raised.
Again(p) ==
    /\ pc[p] \in {"done", "failed"}
    /\ Enter(p)

\* new_rows = src.fetch()
Fetch(p, results) ==
    /\ pc[p] = "fetch"
    /\ \E rows \in results : new_rows' = [new_rows EXCEPT ![p] = rows]
    /\ Step(p, "fetch", "load")
    /\ UNCHANGED <<files, existing_rows, combined, ret, pre, interleaved>>

\* src.fetch() raises.
FetchFail(p) ==
    /\ pc[p] = "fetch"
    /\ Raise(p, "FetchError")
    /\ UNCHANGED <<files, locals, log, pre, interleaved>>

LoadLenient(p) ==
    /\ pc[p] = "load"
    /\ CanRead(json_file)
    /\ existing_rows' = [existing_rows EXCEPT ![p] =
          ToSnapshots(SelectSeq(read_json_if_exists(json_file), IsValidDict))]
    /\ interleaved' =
          (interleaved \/ \E q \in Procs \ {p} : pc[q] \in {"concat", "dedupe", "write_json"})
    /\ Step(p, "load", "concat")
    /\ UNCHANGED <<files, new_rows, combined, ret, pre>>

\* existing_dicts = read_json_if_exists(out_json)
\* existing_rows = [_dict_to_snapshot(d) for d in existing_dicts]
Load(p) ==
    /\ pc[p] = "load"
    /\ Loadable(json_file)
    /\ existing_rows' = [existing_rows EXCEPT ![p] =
          ToSnapshots(read_json_if_exists(json_file))]
    /\ interleaved' =
          (interleaved \/ \E q \in Procs \ {p} : pc[q] \in {"concat", "dedupe", "write_json"})
    /\ Step(p, "load", "concat")
    /\ UNCHANGED <<files, new_rows, combined, ret, pre>>

\* read_json_if_exists raises on an unparseable file, or _dict_to_snapshot on
\* an object it cannot validate.
LoadFail(p) ==
    /\ pc[p] = "load"
    /\ ~Loadable(json_file)
    /\ Raise(p, IF CanRead(json_file) THEN "ValidationError" ELSE "CorruptStateError")
    /\ UNCHANGED <<files, locals, log, pre, interleaved>>

ConcatNewFirst(existing, new) == new \o existing

ConcatNewOnly(existing, new) == new

\* existing_rows + new_rows
Concat(existing, new) == existing \o new

\* combined = existing_rows + new_rows
Combine(p) ==
    /\ pc[p] = "concat"
    /\ combined' = [combined EXCEPT ![p] = Concat(existing_rows[p], new_rows[p])]
    /\ Step(p, "concat", "dedupe")
    /\ UNCHANGED <<files, new_rows, existing_rows, ret, pre, interleaved>>

DedupeSkipped(p) ==
    /\ pc[p] = "dedupe"
    /\ Step(p, "dedupe", "write_json")
    /\ UNCHANGED <<files, locals, pre, interleaved>>

\* combined = dedupe_snapshots(combined)
Dedupe(p) ==
    /\ pc[p] = "dedupe"
    /\ combined' = [combined EXCEPT ![p] = dedupe_snapshots(combined[p])]
    /\ Step(p, "dedupe", "write_json")
    /\ UNCHANGED <<files, new_rows, existing_rows, ret, pre, interleaved>>

\* write_json(out_json, combined)
WriteJson(p) ==
    /\ pc[p] = "write_json"
    /\ json_file' = FileOf(ToDicts(combined[p]))
    /\ json_written' = TRUE
    /\ Step(p, "write_json", "write_csv")
    /\ UNCHANGED <<csv_file, locals, pre, interleaved>>

\* write_json raises: the target is left as it was.
WriteJsonFail(p) ==
    /\ pc[p] = "write_json"
    /\ Raise(p, "IOError")
    /\ UNCHANGED <<files, locals, log, pre, interleaved>>

WriteCsvNewOnly(p) ==
    /\ pc[p] = "write_csv"
    /\ csv_file' = FileOf(ToCsvRows(new_rows[p]))
    /\ Step(p, "write_csv", "return")
    /\ UNCHANGED <<json_file, json_written, locals, pre, interleaved>>

\* write_csv(out_csv, combined)
WriteCsv(p) ==
    /\ pc[p] = "write_csv"
    /\ csv_file' = FileOf(ToCsvRows(combined[p]))
    /\ Step(p, "write_csv", "return")
    /\ UNCHANGED <<json_file, json_written, locals, pre, interleaved>>

\* write_csv raises: the target is left as it was.
WriteCsvFail(p) ==
    /\ pc[p] = "write_csv"
    /\ Raise(p, "IOError")
    /\ UNCHANGED <<files, locals, log, pre, interleaved>>

\* return combined
Return(p) ==
    /\ pc[p] = "return"
    /\ ret' = [ret EXCEPT ![p] = combined[p]]
    /\ Step(p, "return", "done")
    /\ UNCHANGED <<files, new_rows, existing_rows, combined, pre, interleaved>>

\* Serial runs: one caller, calling run_pipeline again and again.
Next ==
    \/ Start("r1")
    \/ Again("r1")
    \/ Fetch("r1", SerialFetches)
    \/ FetchFail("r1")
    \/ Load("r1")
    \/ LoadFail("r1")
    \/ Combine("r1")
    \/ Dedupe("r1")
    \/ WriteJson("r1")
    \/ WriteJsonFail("r1")
    \/ WriteCsv("r1")
    \/ WriteCsvFail("r1")
    \/ Return("r1")

Spec == Init /\ [][Next]_vars

\* Two runs on the same storage path, one call each, steps interleaved freely.
NextConc ==
    \E p \in Procs :
        \/ Start(p)
        \/ Fetch(p, ConcFetches)
        \/ FetchFail(p)
        \/ Load(p)
        \/ Combine(p)
        \/ Dedupe(p)
        \/ WriteJson(p)
        \/ WriteJsonFail(p)
        \/ WriteCsv(p)
        \/ WriteCsvFail(p)
        \/ Return(p)

SpecConc == InitConc /\ [][NextConc]_vars

\* ------------------------------------------------------------- properties
Range(rows) == {rows[i] : i \in 1..Len(rows)}

\* The (product_key, scraped_at) pairs of a sequence of snapshots or of objects.
Pairs(rows) == {PairOf(rows[i]) : i \in 1..Len(rows)}

StampsOf(rows) == {rows[i].scraped_at : i \in 1..Len(rows)}

NoDupPairs(rows) ==
    \A i, j \in 1..Len(rows) : i # j => PairOf(rows[i]) # PairOf(rows[j])

IsPrefix(a, b) == Len(a) <= Len(b) /\ \A i \in 1..Len(a) : a[i] = b[i]

\* The positions of rows that hold the first occurrence of their pair.
FirstIdx(rows) ==
    {i \in 1..Len(rows) : \A j \in 1..(i - 1) : PairOf(rows[j]) # PairOf(rows[i])}

\* The subsequence of rows at the positions I, in their order in rows.
Pick(rows, I) ==
    [k \in 1..Cardinality(I) |->
        rows[CHOOSE i \in I : Cardinality({j \in I : j <= i}) = k]]

\* The first occurrence of every pair, in input order, stated without recursion.
Firsts(rows) == Pick(rows, FirstIdx(rows))

\* The positions of rows whose pair no record of others has.
FreshIdx(rows, others) == {i \in 1..Len(rows) : PairOf(rows[i]) \notin Pairs(others)}

\* The snapshots the objects of a history file stand for.
SnapshotsIn(f) == ToSnapshots(read_json_if_exists(f))

Wrote(p) == pc[p] \in {"write_csv", "return", "done"}
Deduped(p) == pc[p] \in {"write_json", "write_csv", "return", "done"}
CsvWriteFailed(p) ==
    pc[p] = "failed" /\ err[p] = "IOError" /\ "write_json" \in Range(log[p])

\* C1: when the CSV write of a run fails, the JSON history (and the CSV file) is
\* what it was before the run.  The code has written the JSON file by then.
C1_NoPartialPersistence ==
    \A p \in Procs :
        CsvWriteFailed(p) => json_file = pre[p].json /\ csv_file = pre[p].csv

\* C2: a run whose fetch fails, whose history file does not parse or holds an
\* object that is no ProductSnapshot, raises that error and writes nothing: both
\* files are as before the run; only a loadable history lets a run get past the load.
C2_EarlyFailureWritesNothing ==
    \A p \in Procs :
        /\ (pc[p] = "failed" /\ err[p] \in {"FetchError", "CorruptStateError", "ValidationError"})
              => /\ json_file = pre[p].json
                 /\ csv_file = pre[p].csv
                 /\ "write_json" \notin Range(log[p])
                 /\ "write_csv" \notin Range(log[p])
        /\ (pc[p] = "failed" /\ err[p] = "CorruptStateError") => ~CanRead(pre[p].json)
        /\ (pc[p] = "failed" /\ err[p] = "ValidationError") => ~Loadable(pre[p].json)
        /\ "load" \in Range(log[p]) => Loadable(pre[p].json)

C2_Witness ==
    \E p \in Procs :
        /\ pc[p] = "failed"
        /\ err[p] = "ValidationError"
        /\ Len(json_file.rows) = 2
        /\ new_rows[p] # <<>>

\* C3: a run performs fetch, load, concatenate (existing first, new second),
\* deduplicate, write JSON, write CSV, return, in that order; what it returns and
\* what it wrote to JSON are both dedupe(existing ++ new).
C3_StepOrderAndResult ==
    \A p \in Procs :
        /\ IsPrefix(log[p], FullLog)
        /\ pc[p] = "done" =>
              /\ log[p] = FullLog
              /\ existing_rows[p] = SnapshotsIn(pre[p].json)
              /\ ret[p] = dedupe_snapshots(existing_rows[p] \o new_rows[p])
              /\ json_file = FileOf(ToDicts(ret[p]))

C3_Witness ==
    \E p \in Procs :
        /\ pc[p] = "done"
        /\ existing_rows[p] # <<>>
        /\ new_rows[p] # <<>>
        /\ Len(ret[p]) < Len(existing_rows[p]) + Len(new_rows[p])
        /\ Pairs(new_rows[p]) \ Pairs(existing_rows[p]) # {}

\* C4: once a run has written the JSON history, whatever file the runs started
\* from, no two of its snapshots share a (product_key, scraped_at) pair.
C4_PersistedHistoryHasNoDuplicates ==
    json_written => json_file.parses /\ NoDupPairs(json_file.rows)

C4_Witness ==
    \E p \in Procs :
        /\ pc[p] = "done"
        /\ ~NoDupPairs(pre[p].json.rows)
        /\ ~NoDupPairs(new_rows[p])
        /\ Len(json_file.rows) >= 2

\* C5 as stated: with no timestamp of the fetch F in the history H, the run
\* persists Len(H) + Len(F) records, less the repeats of a pair inside F.
C5_MergeGrowthAsStated ==
    \A p \in Procs :
        (pc[p] = "done" /\ StampsOf(new_rows[p]) \cap StampsOf(existing_rows[p]) = {})
            => Len(json_file.rows)
                 = Len(existing_rows[p]) + Cardinality(Pairs(new_rows[p]))

\* C5, amended: with no timestamp of the fetch F in the history H, the run
\* persists the first record of each pair of H followed by the first record of
\* each pair of F: Len(H) + Len(F) records when neither repeats a pair.
C5_MergeGrowth ==
    \A p \in Procs :
        (pc[p] = "done" /\ StampsOf(new_rows[p]) \cap StampsOf(existing_rows[p]) = {})
            => /\ SnapshotsIn(json_file) = Firsts(existing_rows[p]) \o Firsts(new_rows[p])
               /\ Len(json_file.rows)
                    = Cardinality(Pairs(existing_rows[p])) + Cardinality(Pairs(new_rows[p]))
               /\ (NoDupPairs(existing_rows[p]) /\ NoDupPairs(new_rows[p]))
                     => Len(json_file.rows) = Len(existing_rows[p]) + Len(new_rows[p])

C5_Witness ==
    \E p \in Procs :
        /\ pc[p] = "done"
        /\ StampsOf(new_rows[p]) \cap StampsOf(existing_rows[p]) = {}
        /\ Len(existing_rows[p]) = 2
        /\ Len(new_rows[p]) = 2
        /\ Len(json_file.rows) = 4

\* C6: after a successful run the CSV file holds one row per snapshot of the
\* JSON file, the projection of that snapshot, in the same order.
C6_CsvMatchesJson ==
    \A p \in Procs :
        pc[p] = "done" =>
            /\ csv_file.exists
            /\ json_file.exists
            /\ Len(csv_file.rows) = Len(json_file.rows)
            /\ \A i \in 1..Len(json_file.rows) :
                  csv_file.rows[i] = csv_row(DictToSnapshot(json_file.rows[i]))

C6_Witness ==
    \E p \in Procs :
        /\ pc[p] = "done"
        /\ existing_rows[p] # <<>>
        /\ new_rows[p] # <<>>
        /\ Len(csv_file.rows) >= 3
        /\ pre[p].csv # csv_file

\* C7: deduplicating a deduplicated sequence changes nothing; a run that fetches
\* nothing, on a history an earlier run wrote, leaves that history as it was.
C7_DedupeIdempotent ==
    \A p \in Procs :
        /\ LET S == existing_rows[p] \o new_rows[p] IN
              dedupe_snapshots(dedupe_snapshots(S)) = dedupe_snapshots(S)
        /\ Deduped(p) => dedupe_snapshots(combined[p]) = combined[p]
        /\ (Wrote(p) /\ new_rows[p] = <<>> /\ pre[p].written) => json_file = pre[p].json

C7_Witness ==
    \E p \in Procs :
        /\ pc[p] = "done"
        /\ new_rows[p] = <<>>
        /\ pre[p].written
        /\ Len(json_file.rows) >= 2
        /\ \E i \in 1..Len(json_file.rows) : json_file.rows[i].price = 2

\* C8: the merged history is the subsequence of existing ++ new that holds the
\* first occurrence of each pair: the retained existing records, in their order,
\* then the retained new records, in theirs; a new record whose pair an existing
\* record has is dropped.
C8_FirstOccurrenceOrder ==
    \A p \in Procs :
        Deduped(p) =>
            /\ combined[p] = Firsts(existing_rows[p] \o new_rows[p])
            /\ combined[p] =
                  Firsts(existing_rows[p])
                  \o Firsts(Pick(new_rows[p], FreshIdx(new_rows[p], existing_rows[p])))

C8_Witness ==
    \E p \in Procs :
        /\ pc[p] = "done"
        /\ \E i \in 1..Len(existing_rows[p]), j \in 1..Len(new_rows[p]) :
              /\ PairOf(existing_rows[p][i]) = PairOf(new_rows[p][j])
              /\ existing_rows[p][i] # new_rows[p][j]
        /\ Pairs(new_rows[p]) \ Pairs(existing_rows[p]) # {}

\* C9: a duplicate-free history is a prefix of the history any step leaves: no
\* record of it is removed, changed or moved.
C9_AppendOnly ==
    [][(Loadable(json_file) /\ NoDupPairs(json_file.rows))
          => IsPrefix(json_file.rows, json_file'.rows)]_vars

C9_Witness ==
    \E p \in Procs :
        /\ pc[p] = "done"
        /\ pre[p].written
        /\ Len(pre[p].json.rows) >= 2
        /\ Len(json_file.rows) > Len(pre[p].json.rows)

Count(rows, x) == Cardinality({i \in 1..Len(rows) : rows[i] = x})

\* The final history has a record for every pair run p fetched.
Kept(p) == Pairs(new_rows[p]) \subseteq Pairs(SnapshotsIn(json_file))

\* The final history has no record of anything run p fetched.
Lost(p) == new_rows[p] # <<>> /\ Pairs(new_rows[p]) \cap Pairs(SnapshotsIn(json_file)) = {}

\* C10: a run loads the history once and writes it once; when no run loads
\* between another's load and write, the final history has the records of both.
C10_SerializedRunsKeepBoth ==
    /\ \A p \in Procs :
          /\ Count(log[p], "load") <= 1
          /\ Count(log[p], "write_json") <= 1
          /\ pc[p] = "done" => Count(log[p], "load") = 1 /\ Count(log[p], "write_json") = 1
    /\ ((\A p \in Procs : pc[p] = "done") /\ ~interleaved) => \A p \in Procs : Kept(p)

\* C10, the overlap: both runs returned, and the final history has no record of
\* what one of them fetched.
C10_Witness ==
    /\ \A p \in Procs : pc[p] = "done"
    /\ interleaved
    /\ \E p \in Procs : Lost(p)
====
